---- MODULE Spec2Model ----
(***************************************************************************)
(* A model of the consoleText dashboard.                                   *)
(*                                                                         *)
(* logger.text (src/src/lib/logger.ts): one call shapes the attributes of  *)
(* a log record, hands the record to the OpenTelemetry logger, mirrors it  *)
(* on the console and touches the active span.  The state is one observed  *)
(* call: its arguments and ambient context, and everything it did to its   *)
(* collaborators, in the order it did it (Spec).                           *)
(*                                                                         *)
(* The dashboard page (src/src/app/page.tsx): its log filter, in one       *)
(* render (SpecFilter) and in use (SpecDashboard), its count of recent     *)
(* errors (SpecCount), and its alerts, in use (SpecAlerts) and under       *)
(* calls of the acknowledge handler (SpecAcknowledge).                     *)
(*                                                                         *)
(* The recipients page with its table and form dialog (SpecRecipients),    *)
(* and the Svelte components LogStream and IncidentTimeline                *)
(* (SpecLogStream, SpecIncidents).                                         *)
(***************************************************************************)
EXTENDS Integers, Sequences, FiniteSets, TLC

\* ---------------------------------------------------------------- bounds
\* Largest number of entries of a data mapping.
MaxData == 2

\* The largest number of log entries the dashboard page holds.
MaxLogs == 2

\* ------------------------------------------------------ JavaScript values
\* The values a data mapping holds.  A mapping is a sequence of entries
\* [key, value] with distinct keys, in insertion order.
Num(n) == [kind |-> "number", num |-> n]
Str(s) == [kind |-> "string", str |-> s]
\* A plain object with the given own properties.
Obj(props) == [kind |-> "object", props |-> props]
\* An object that contains itself.
Cyclic == [kind |-> "cyclic"]
\* Object.create(null): an object without toString or valueOf.
NullProto == [kind |-> "nullproto"]
\* An Error; stack is "" when the engine recorded none.
Err(m, st) == [kind |-> "error", message |-> m, stack |-> st]

Entry(k, v) == [key |-> k, value |-> v]

\* typeof v === 'object' && v !== null
IsObject(v) == v.kind \in {"object", "cyclic", "nullproto", "error"}
\* v instanceof Error
IsError(v) == v.kind = "error"

\* String(v) throws a TypeError.
StringThrows(v) == v.kind = "nullproto"

\* String(v), for the values it is defined on.
String(v) ==
  CASE v.kind = "number" -> ToString(v.num)
    [] v.kind = "string" -> v.str
    [] v.kind = "error" -> "Error: " \o v.message
    [] OTHER -> "[object Object]"

RECURSIVE JSONThrows(_)
RECURSIVE JSONMembersThrow(_)
\* JSON.stringify(v) throws (a cycle somewhere below v).
JSONThrows(v) ==
  CASE v.kind = "cyclic" -> TRUE
    [] v.kind = "object" -> JSONMembersThrow(v.props)
    [] OTHER -> FALSE

\* JSON.stringify of a mapping with these entries throws.
JSONMembersThrow(props) ==
  IF props = <<>> THEN FALSE
  ELSE JSONThrows(Head(props).value) \/ JSONMembersThrow(Tail(props))

RECURSIVE JSONstringify(_)
RECURSIVE JSONMembers(_)
\* JSON.stringify(v), for the values it does not throw on.  An Error and a
\* prototype-less empty object have no enumerable own property.
JSONstringify(v) ==
  CASE v.kind = "number" -> ToString(v.num)
    [] v.kind = "string" -> "\"" \o v.str \o "\""
    [] v.kind = "object" -> "{" \o JSONMembers(v.props) \o "}"
    [] OTHER -> "{}"

\* The comma-separated members of a mapping.
JSONMembers(props) ==
  IF props = <<>> THEN ""
  ELSE "\"" \o Head(props).key \o "\":" \o JSONstringify(Head(props).value)
       \o (IF Tail(props) = <<>> THEN "" ELSE "," \o JSONMembers(Tail(props)))

\* JSON.stringify of a mapping.
JSONstringifyData(data) == "{" \o JSONMembers(data) \o "}"

\* ------------------------------------------------------------- attributes
\* An attribute mapping is a function from attribute names to strings.
NoAttributes == [k \in {} |-> ""]

\* attrs[k] = x
Put(attrs, k, x) ==
  [n \in DOMAIN attrs \cup {k} |-> IF n = k THEN x ELSE attrs[n]]

\* { ...a, ...b }
Spread(a, b) ==
  [n \in DOMAIN a \cup DOMAIN b |-> IF n \in DOMAIN b THEN b[n] ELSE a[n]]

\* ------------------------------------------------------------ logger.text
Levels == {"error", "warn", "info", "debug", "delivered", "blocked"}
\* A level string outside the enumeration, as untyped callers can pass.
UnknownLevels == {"trace"}

\* The modelled calls: a message argument and the reading of the clock at
\* the moment of the call, in milliseconds.
Calls ==
  { [message |-> "Payment failed", at |-> 0], [message |-> "ok", at |-> 7] }

\* The keys of data, in the order the modelled callers insert them.
KeyOrder == << "count", "error", "log.level", "trace_id" >>
Keys == { KeyOrder[i] : i \in 1..Len(KeyOrder) }
KeyIndex(k) == CHOOSE i \in 1..Len(KeyOrder) : KeyOrder[i] = k

Values ==
  { Num(3), Str("timeout"), Obj(<<Entry("a", Num(1))>>), Cyclic, NullProto,
    Err("timeout", "Error: timeout\n    at pay") }

\* The data mappings: up to MaxData entries with distinct keys.  A call
\* without data behaves as a call with the empty mapping.
DataMaps ==
  UNION { { d \in [1..n -> [key : Keys, value : Values]] :
              \A i, j \in 1..n :
                i < j => KeyIndex(d[i].key) < KeyIndex(d[j].key) }
          : n \in 0..MaxData }

ZeroTraceId == "00000000000000000000000000000000"

\* trace.getSpan(apiContext.active()): no span, or a span with its context.
NoSpan == [active |-> FALSE, traceId |-> "", spanId |-> ""]
Spans ==
  { NoSpan,
    [active |-> TRUE, traceId |-> "", spanId |-> "s0"],
    [active |-> TRUE, traceId |-> ZeroTraceId, spanId |-> "0000000000000000"],
    [active |-> TRUE, traceId |-> "abc123", spanId |-> "def456"] }

VARIABLES
  hasWindow,            \* typeof window !== 'undefined'
  DATADOG_API_KEY_SET,  \* the module constant of that name
  now,                  \* the clock, in milliseconds
  level, message,       \* the arguments of the observed call
  dataArg,              \* the data mapping as it was passed
  data,                 \* the caller's data mapping after the call
  currentSpan,          \* the active span of the observed call
  sinkThrows,           \* whether otelLogger.emit threw in the observed call
  emitted,              \* the records passed to otelLogger.emit
  console,              \* the console writes, in order
  spanCalls,            \* the operations invoked on the span, in order
  outcome               \* "idle", "returned" or "threw"

\* The state of the dashboard page (src/src/app/page.tsx).
VARIABLES
  page,                 \* where the page is: "idle", "mounted", "loaded", or,
                        \* for a single render, "props" and "rendered"
  allLogs,              \* the state allLogs
  searchTerm,           \* the state searchTerm
  activeLevels,         \* the state activeLevels, an array of levels
  filteredLogs,         \* filteredLogs of the latest render
  dateNow,              \* Date.now(), in milliseconds
  totalErrors           \* the value of the statistic total-errors

loggerVars ==
  << hasWindow, DATADOG_API_KEY_SET, now, level, message, dataArg, data,
     currentSpan, sinkThrows, emitted, console, spanCalls, outcome >>

dashboardVars ==
  << page, allLogs, searchTerm, activeLevels, filteredLogs, dateNow,
     totalErrors >>

\* The alerts of the dashboard page.  Arrays and alert objects live in a heap,
\* so that building a new array differs from changing an old one: a
\* reference is an index into objects or into arrays.
VARIABLES
  objects,              \* every alert object created so far
  arrays,               \* every array of alerts created so far, each the
                        \* sequence of the references of its elements
  alerts,               \* the state alerts: a reference to an array
  acknowledgedAlerts,   \* the state acknowledgedAlerts of AlertTimeline
  criticalAlerts,       \* the value of the statistic critical-alerts
  simulatedErrorCount,  \* the state simulatedErrorCount
  simulatedAlerts       \* how many SIMULATED ALERT warnings were logged

alertVars ==
  << objects, arrays, alerts, acknowledgedAlerts, criticalAlerts,
     simulatedErrorCount, simulatedAlerts >>

\* The recipients page (src/src/app/recipients/page.tsx) with its table and
\* its form dialog.
VARIABLES
  rpage,                \* where the page is: "idle", "mounted", "failed", or
                        \* "rendered" for a table rendered with a list
  recipients,           \* the state recipients
  dialog,               \* the form dialog in use: whose it is, the state
                        \* isOpen and the name held by the form
  lastToast,            \* the title of the latest toast
  thrown                \* the exception that left the latest handler

recipientVars == << rpage, recipients, dialog, lastToast, thrown >>

\* The Svelte components LogStream and IncidentTimeline.
VARIABLES
  component,            \* where the component is: "idle", "created",
                        \* "mounted" or "destroyed"
  streamLogs,           \* the store logs of LogStream
  incidents,            \* the store incidents
  id,                   \* the variable id of IncidentTimeline
  clock                 \* the wall clock, in milliseconds

streamVars == << component, streamLogs, incidents, id, clock >>

vars == << loggerVars, dashboardVars, alertVars, recipientVars, streamVars >>

\* What each component leaves alone.
OutsideLogger == << dashboardVars, alertVars, recipientVars, streamVars >>

OutsideDashboard == << loggerVars, recipientVars, streamVars >>

OutsideRecipients == << loggerVars, dashboardVars, alertVars, streamVars >>

OutsideStreams == << loggerVars, dashboardVars, alertVars, recipientVars >>

\* No call of logger.text is observed.
LoggerIdle ==
  /\ hasWindow = FALSE
  /\ DATADOG_API_KEY_SET = FALSE
  /\ now = 0
  /\ level = "info"
  /\ message = "ok"
  /\ dataArg = <<>>
  /\ data = <<>>
  /\ currentSpan = NoSpan
  /\ sinkThrows = FALSE
  /\ emitted = <<>>
  /\ console = <<>>
  /\ spanCalls = <<>>
  /\ outcome = "idle"

\* No dashboard page is observed.
DashboardIdle ==
  /\ page = "idle"
  /\ allLogs = <<>>
  /\ searchTerm = <<>>
  /\ activeLevels = <<>>
  /\ filteredLogs = <<>>
  /\ dateNow = 0
  /\ totalErrors = 0

\* The page holds no alert: the state alerts is the empty array it was
\* created with, nothing is acknowledged, no simulated error was counted.
NoAlerts ==
  /\ objects = <<>>
  /\ arrays = << <<>> >>
  /\ alerts = 1
  /\ acknowledgedAlerts = {}
  /\ criticalAlerts = 0
  /\ simulatedErrorCount = 0
  /\ simulatedAlerts = 0

\* The dialog of no one, closed.
NoDialog == [owner |-> "none", isOpen |-> FALSE, name |-> ""]

\* No recipients page is observed.
RecipientsIdle ==
  /\ rpage = "idle"
  /\ recipients = <<>>
  /\ dialog = NoDialog
  /\ lastToast = ""
  /\ thrown = "none"

\* No Svelte component is observed.
StreamsIdle ==
  /\ component = "idle"
  /\ streamLogs = <<>>
  /\ incidents = <<>>
  /\ id = 1
  /\ clock = 0

OutsideLoggerIdle == DashboardIdle /\ NoAlerts /\ RecipientsIdle /\ StreamsIdle

OutsideDashboardIdle == LoggerIdle /\ RecipientsIdle /\ StreamsIdle

OutsideRecipientsIdle == LoggerIdle /\ DashboardIdle /\ NoAlerts /\ StreamsIdle

OutsideStreamsIdle == LoggerIdle /\ DashboardIdle /\ NoAlerts /\ RecipientsIdle

\* data[k] is an own property.
Has(d, k) == \E i \in 1..Len(d) : d[i].key = k
\* data[k], for an own property k.
Get(d, k) == d[CHOOSE i \in 1..Len(d) : d[i].key = k].value
\* data.error instanceof Error
HasErrorField(d) == Has(d, "error") /\ IsError(Get(d, "error"))

\* The value stored for one data entry (the branches of the shaping loop).
shapeValue(v) ==
  IF IsObject(v) /\ ~IsError(v)
    THEN IF JSONThrows(v) THEN "[Unserializable Object]" ELSE JSONstringify(v)
  ELSE IF IsError(v)
    THEN IF v.stack # "" THEN v.stack ELSE v.message
  ELSE String(v)

\* A variant of shapeThrows: JSON.stringify is called outside a try block.
shapeThrows_noTry(v) ==
  \/ IsObject(v) /\ ~IsError(v) /\ JSONThrows(v)
  \/ ~IsObject(v) /\ ~IsError(v) /\ StringThrows(v)

\* The shaping of one entry lets an exception escape: only the final branch
\* runs outside a try block.
shapeThrows(v) == ~IsObject(v) /\ ~IsError(v) /\ StringThrows(v)

RECURSIVE shapeData(_, _)
\* The loop over the own properties of data, from the attributes so far.
shapeData(attrs, d) ==
  IF d = <<>> THEN attrs
  ELSE shapeData(Put(attrs, Head(d).key, shapeValue(Head(d).value)), Tail(d))

\* A variant of hasTrace: the all-zero sentinel is not tested.
hasTrace_noSentinel(span) == span.active /\ span.traceId # ""

\* spanContext && spanContext.traceId && spanContext.traceId !== zeros
hasTrace(span) ==
  span.active /\ span.traceId # "" /\ span.traceId # ZeroTraceId

\* A variant of logAttributes: log.level is set before the loop over data,
\* so that a data key of that name replaces it.
logAttributes_levelFirst(lvl, d, span) ==
  LET shaped == shapeData(Put(NoAttributes, "log.level", lvl), d)
  IN  IF hasTrace(span)
        THEN Put(Put(shaped, "trace_id", span.traceId), "span_id", span.spanId)
        ELSE shaped

\* logAttributes as handed to the sink.
logAttributes(lvl, d, span) ==
  LET shaped == shapeData(NoAttributes, d)
      traced == IF hasTrace(span)
                  THEN Put(Put(shaped, "trace_id", span.traceId),
                           "span_id", span.spanId)
                  ELSE shaped
  IN  Put(traced, "log.level", lvl)

\* A variant of severityNumber: blocked shares the case of info.
severityNumber_blockedAsInfo(lvl) ==
  CASE lvl = "error" -> "ERROR"
    [] lvl = "warn" -> "WARN"
    [] lvl \in {"info", "delivered", "blocked"} -> "INFO"
    [] lvl = "debug" -> "DEBUG"
    [] OTHER -> "INFO"

\* The switch that sets severityNumber.
severityNumber(lvl) ==
  CASE lvl = "error" -> "ERROR"
    [] lvl = "warn" -> "WARN"
    [] lvl \in {"info", "delivered"} -> "INFO"
    [] lvl \in {"debug", "blocked"} -> "DEBUG"
    [] OTHER -> "INFO"

\* A variant of otelLogRecord: the body is the message followed by the
\* rendering of data.
otelLogRecord_bodyWithData(lvl, msg, d, span, timestamp) ==
  [ body |-> IF d = <<>> THEN msg ELSE msg \o " " \o shapeValue(Obj(d)),
    severityNumber |-> severityNumber(lvl),
    attributes |-> logAttributes(lvl, d, span),
    timestamp |-> timestamp ]

\* otelLogRecord
otelLogRecord(lvl, msg, d, span, timestamp) ==
  [ body |-> msg,
    severityNumber |-> severityNumber(lvl),
    attributes |-> logAttributes(lvl, d, span),
    timestamp |-> timestamp ]

\* timestamp.toISOString(), for the clock readings below ten milliseconds.
toISOString(t) == "1970-01-01T00:00:00.00" \o ToString(t) \o "Z"

\* level.toUpperCase()
toUpperCase(lvl) ==
  CASE lvl = "error" -> "ERROR"
    [] lvl = "warn" -> "WARN"
    [] lvl = "info" -> "INFO"
    [] lvl = "debug" -> "DEBUG"
    [] lvl = "delivered" -> "DELIVERED"
    [] lvl = "blocked" -> "BLOCKED"
    [] lvl = "trace" -> "TRACE"

\* error.stack || error.message
stackOrMessage(e) == IF e.stack # "" THEN e.stack ELSE e.message

\* const otherData = {...data}; delete otherData.error
otherData(d) == SelectSeq(d, LAMBDA e : e.key # "error")

\* finalConsoleMessage
finalConsoleMessage(timestamp, lvl, msg, d) ==
  LET prefix == "[" \o toISOString(timestamp) \o "] [" \o toUpperCase(lvl)
                \o "] " \o msg
      rendered(m) == IF JSONMembersThrow(m) THEN " [Unserializable data]"
                     ELSE " " \o JSONstringifyData(m)
  IN  IF d = <<>> THEN prefix
      ELSE IF HasErrorField(d)
        THEN prefix \o " " \o stackOrMessage(Get(d, "error"))
             \o (IF otherData(d) = <<>> THEN "" ELSE rendered(otherData(d)))
      ELSE prefix \o rendered(d)

\* The console method the switch on level calls.
consoleChannel(lvl) ==
  CASE lvl = "error" -> "error"
    [] lvl = "warn" -> "warn"
    [] lvl \in {"info", "delivered"} -> "info"
    [] lvl \in {"debug", "blocked"} -> "debug"
    [] OTHER -> "log"

\* The write that follows the switch for an error logged in a browser
\* without an API key.
simulatedForwarding ==
  [ channel |-> "log",
    args |-> << "%c[[SIMULATING ERROR FORWARDING TO DATADOG/PAGERDUTY - DATADOG_API_KEY not set]]",
                "color: orange; font-weight: bold;" >> ]

\* The data entry goes into exceptionAttributes.
isExceptionAttribute(e) == e.key # "error" /\ ~IsError(e.value)

\* String(value) throws while exceptionAttributes is filled.
exceptionAttributesThrow(d) ==
  \E i \in 1..Len(d) : isExceptionAttribute(d[i]) /\ StringThrows(d[i].value)

RECURSIVE exceptionAttributes(_, _)
\* exceptionAttributes, from the attributes so far.
exceptionAttributes(attrs, d) ==
  IF d = <<>> THEN attrs
  ELSE exceptionAttributes(
         IF isExceptionAttribute(Head(d))
           THEN Put(attrs, "log.data." \o Head(d).key, String(Head(d).value))
           ELSE attrs,
         Tail(d))

\* new Error(message): the message and a stack the engine writes.
newError(msg) == Err(msg, "Error: " \o msg \o "\n    at Object.text")

\* exceptionToRecord
exceptionToRecord(msg, d) ==
  IF HasErrorField(d) THEN Get(d, "error")
  ELSE IF d = <<>> THEN newError(msg)
  ELSE [ kind |-> "error", message |-> msg, stack |-> newError(msg).stack,
         details |-> IF JSONMembersThrow(d) THEN "[Unserializable data]"
                     ELSE JSONstringifyData(d) ]

\* The name of the event added to the span for a level other than error.
eventName(lvl, msg) ==
  CASE lvl = "warn" -> "WARN: " \o msg
    [] lvl \in {"info", "delivered"} -> "INFO: " \o msg
    [] lvl \in {"debug", "blocked"} -> "DEBUG: " \o msg
    [] OTHER -> msg

\* The attributes of that event.
eventAttributes(lvl, attrs) ==
  Spread([n \in {"log.level"} |-> IF lvl = "warn" THEN "warn" ELSE lvl], attrs)

\* Where the call stops: "shape" (an uncaught coercion in the shaping loop),
\* "emit" (the sink threw), "exceptionAttributes" (an uncaught coercion while
\* the exception attributes are filled) or "none" (it returns).
thrownAt(lvl, d, span, throws) ==
  CASE \E i \in 1..Len(d) : shapeThrows(d[i].value) -> "shape"
    [] throws -> "emit"
    [] lvl = "error" /\ span.active /\ exceptionAttributesThrow(d)
         -> "exceptionAttributes"
    [] OTHER -> "none"

\* A variant of spanOperations: the span is used without testing that there
\* is one.
spanOperations_unguarded(lvl, msg, d, span, stop) ==
  IF stop \in {"shape", "emit"} THEN <<>>
  ELSE IF lvl = "error"
    THEN << [op |-> "setStatus", code |-> "ERROR", message |-> msg] >>
         \o (IF stop = "exceptionAttributes" THEN <<>>
             ELSE << [ op |-> "recordException",
                       exception |-> exceptionToRecord(msg, d),
                       attributes |-> exceptionAttributes(NoAttributes, d) ] >>)
  ELSE << [ op |-> "addEvent", name |-> eventName(lvl, msg),
            attributes |-> eventAttributes(lvl, logAttributes(lvl, d, span)) ] >>

\* The calls on the span made by the switch on level, given where it stops.
spanOperations(lvl, msg, d, span, stop) ==
  IF ~span.active \/ stop \in {"shape", "emit"} THEN <<>>
  ELSE IF lvl = "error"
    THEN << [op |-> "setStatus", code |-> "ERROR", message |-> msg] >>
         \o (IF stop = "exceptionAttributes" THEN <<>>
             ELSE << [ op |-> "recordException",
                       exception |-> exceptionToRecord(msg, d),
                       attributes |-> exceptionAttributes(NoAttributes, d) ] >>)
  ELSE << [ op |-> "addEvent", name |-> eventName(lvl, msg),
            attributes |-> eventAttributes(lvl, logAttributes(lvl, d, span)) ] >>

\* The console writes of the call, given where it stops.
consoleWrites(timestamp, lvl, msg, d, stop, window, keySet) ==
  IF stop \in {"shape", "emit"} THEN <<>>
  ELSE << [ channel |-> consoleChannel(lvl),
            args |-> << finalConsoleMessage(timestamp, lvl, msg, d) >> ] >>
       \o (IF stop = "none" /\ lvl = "error" /\ ~keySet /\ window
             THEN << simulatedForwarding >> ELSE <<>>)

dataAfterCall_deleteInPlace(d) ==
  IF HasErrorField(d) THEN SelectSeq(d, LAMBDA e : e.key # "error") ELSE d

\* What the call leaves in the caller's data mapping: the error entry is
\* deleted from a copy only.
dataAfterCall(d) == d

\* The state before the call: the environment, the clock reading, the
\* arguments and the ambient context are any of the modelled ones; nothing
\* has been written yet.
Init ==
  /\ hasWindow \in BOOLEAN
  /\ DATADOG_API_KEY_SET \in BOOLEAN
  /\ \E c \in Calls : message = c.message /\ now = c.at
  /\ level \in Levels \cup UnknownLevels
  /\ dataArg \in DataMaps
  /\ data = dataArg
  /\ currentSpan \in Spans
  /\ sinkThrows \in BOOLEAN
  /\ emitted = <<>>
  /\ console = <<>>
  /\ spanCalls = <<>>
  /\ outcome = "idle"
  /\ OutsideLoggerIdle

\* The call logger.text(level, message, data), from its first statement to
\* its return or to the exception that leaves it.
text ==
  LET stop == thrownAt(level, dataArg, currentSpan, sinkThrows) IN
  /\ outcome = "idle"
  /\ emitted' = IF stop = "shape" THEN <<>>
                ELSE << otelLogRecord(level, message, dataArg, currentSpan, now) >>
  /\ console' = consoleWrites(now, level, message, dataArg, stop, hasWindow,
                              DATADOG_API_KEY_SET)
  /\ spanCalls' = spanOperations(level, message, dataArg, currentSpan, stop)
  /\ data' = dataAfterCall(dataArg)
  /\ outcome' = IF stop = "none" THEN "returned" ELSE "threw"
  /\ UNCHANGED << hasWindow, DATADOG_API_KEY_SET, now, level, message,
                  dataArg, currentSpan, sinkThrows >>
  /\ UNCHANGED OutsideLogger

Next == text

Spec == Init /\ [][Next]_vars

\* ------------------------------------------------------- the dashboard page
\* A string of the page is the tuple of its characters.
\* String.prototype.toLowerCase, character by character.
lowerChar(c) ==
  CASE c = "D" -> "d"
    [] c = "B" -> "b"
    [] c = "Y" -> "y"
    [] OTHER   -> c

toLowerCase(str) == [i \in 1..Len(str) |-> lowerChar(str[i])]

\* String.prototype.includes: term occurs as a contiguous part of str.
includes(str, term) ==
  \E i \in 1..(Len(str) + 1) :
    /\ i + Len(term) - 1 <= Len(str)
    /\ \A j \in 1..Len(term) : str[i + j - 1] = term[j]

\* The optional field source of a LogEntry: absent, or one text.
NoSource == <<>>

HasSource(log) == log.source # NoSource

\* The levels of a LogEntry, in the order of the level checkboxes.
ALL_LEVELS == << "error", "warn", "info", "debug", "delivered", "blocked" >>

\* The value the state activeLevels starts with.
InitialLevels == << "error", "warn", "info", "delivered", "blocked", "debug" >>

\* Array.prototype.includes on an array of levels.
levelIncluded(levels, lvl) == \E i \in 1..Len(levels) : levels[i] = lvl

\* log.source && log.source.toLowerCase().includes(term): an absent or
\* empty source is falsy.
sourceMatch(log, term) ==
  /\ HasSource(log)
  /\ log.source[1] # <<>>
  /\ includes(toLowerCase(log.source[1]), toLowerCase(term))

searchTermMatch_caseSensitive(log, term) ==
  \/ toLowerCase(term) = <<>>
  \/ includes(log.message, toLowerCase(term))
  \/ sourceMatch(log, term)

searchTermMatch(log, term) ==
  \/ toLowerCase(term) = <<>>
  \/ includes(toLowerCase(log.message), toLowerCase(term))
  \/ sourceMatch(log, term)

levelMatch_emptyMeansAll(log, levels) ==
  levels = <<>> \/ levelIncluded(levels, log.level)

levelMatch(log, levels) == levelIncluded(levels, log.level)

passes(log, term, levels) == searchTermMatch(log, term) /\ levelMatch(log, levels)

filterLogs_newestLast(logs, term, levels) ==
  LET kept == SelectSeq(logs, LAMBDA log : passes(log, term, levels))
  IN  [i \in 1..Len(kept) |-> kept[Len(kept) + 1 - i]]

\* allLogs.filter(log => searchTermMatch && levelMatch).
filterLogs(logs, term, levels) ==
  SelectSeq(logs, LAMBDA log : passes(log, term, levels))

render_fromFiltered(logs, term, levels) == filterLogs(filteredLogs, term, levels)

\* A render of the page computes filteredLogs from the state it is given.
render(logs, term, levels) == filterLogs(logs, term, levels)

\* One hour, in the milliseconds of Date.now() and Date.prototype.getTime().
HourMs == 60 * 60 * 1000

\* mockLogs.filter(log => log.level === 'error' &&
\*   (Date.now() - log.timestamp.getTime()) < 24*60*60*1000).length
errors24h(mockLogs, nowMs) ==
  Len(SelectSeq(mockLogs, LAMBDA log :
        log.level = "error" /\ (nowMs - log.timestamp) < 24 * 60 * 60 * 1000))

\* The search terms a user types: none, one in lower case, one in upper
\* case, one that occurs nowhere.
SearchTerms == { <<>>, <<"d", "b">>, <<"D", "B">>, <<"z">> }

\* The relatedLogsQuery of the generated alerts.
RelatedLogsQueries == { <<"d", "b">>, <<"y">> }

\* The values of Date.now() observed.
LoadTimes == { 100 * HourMs }

\* The entries generateMockLogs draws from, each with its age at generation:
\* a level, a message and a source, and a timestamp within the last 3 days.
MockEntries ==
  { [id |-> 1, age |-> 1 * HourMs,  level |-> "error",
     message |-> <<"D", "b", "x">>, source |-> << <<"y">> >>],
    [id |-> 2, age |-> 24 * HourMs, level |-> "info",
     message |-> <<"x">>,           source |-> << <<"y", "D", "B">> >>],
    [id |-> 3, age |-> 30 * HourMs, level |-> "warn",
     message |-> <<"x">>,           source |-> << <<"y">> >>],
    [id |-> 4, age |-> 48 * HourMs, level |-> "error",
     message |-> <<"x">>,           source |-> << <<"y">> >>] }

\* A LogEntry generated at nowMs.
mockEntry(e, nowMs) ==
  [id |-> e.id, timestamp |-> nowMs - e.age, level |-> e.level,
   message |-> e.message, source |-> e.source]

\* The collection is sorted by timestamp, newest first.
SortedNewestFirst(logs) ==
  \A i \in 1..Len(logs), j \in 1..Len(logs) :
    i < j => logs[i].timestamp > logs[j].timestamp

\* generateMockLogs(count) at nowMs, for every count up to MaxLogs.
generateMockLogs(nowMs) ==
  { logs \in UNION { [1..n -> { mockEntry(e, nowMs) : e \in MockEntries }]
                     : n \in 0..MaxLogs } : SortedNewestFirst(logs) }

\* ------------------------------------------------ the alerts of the page
\* The largest number of alerts generateMockAlerts is asked for.
MaxAlerts == 2

Severities == { "critical", "warning", "info" }

\* The relatedLogsQuery of a generated alert; the empty string stands for
\* undefined, which is falsy as well.
relatedLogsQuery(severity) ==
  CASE severity = "critical" -> <<"d", "b">>
    [] severity = "warning"  -> <<"y">>
    [] OTHER                 -> <<>>

\* The alert generated at index i, one hour older per index.
mockAlert(i, nowMs, severity, acknowledged) ==
  [id |-> "alert-" \o ToString(i), timestamp |-> nowMs - i * HourMs,
   severity |-> severity, acknowledged |-> acknowledged,
   relatedLogsQuery |-> relatedLogsQuery(severity)]

\* generateMockAlerts(count) at nowMs, for every count up to MaxAlerts:
\* severity and acknowledged are random, the result is sorted newest first.
generateMockAlerts(nowMs) ==
  UNION { { [i \in 1..n |-> mockAlert(i, nowMs, sev[i], ack[i])]
            : sev \in [1..n -> Severities], ack \in [1..n -> BOOLEAN] }
          : n \in 0..MaxAlerts }

\* The alert objects the elements of an array refer to.
Deref(objs, arr) == [i \in 1..Len(arr) |-> objs[arr[i]]]

\* alerts.filter(a => a.severity === 'critical' && !a.acknowledged).length
criticalAlertsCount(list) ==
  Len(SelectSeq(list, LAMBDA a : a.severity = "critical" /\ ~a.acknowledged))

\* alerts.filter(a => a.id !== alertId && a.severity === 'critical' &&
\*   !a.acknowledged).length
criticalAlertsCountWithout(list, alertId) ==
  Len(SelectSeq(list, LAMBDA a : /\ a.id # alertId
                                 /\ a.severity = "critical"
                                 /\ ~a.acknowledged))

matches_any(a, alertId) == TRUE

\* a.id === alertId
matches(a, alertId) == a.id = alertId

acknowledged_toggled(a) == [a EXCEPT !.acknowledged = ~a.acknowledged]

\* {...a, acknowledged: true}: a new object.
acknowledged(a) == [a EXCEPT !.acknowledged = TRUE]

mapAcknowledged_inPlace(objs, arr, alertId) ==
  [objects |-> [r \in 1..Len(objs) |->
                  IF (\E i \in 1..Len(arr) : arr[i] = r) /\ matches(objs[r], alertId)
                  THEN acknowledged(objs[r]) ELSE objs[r]],
   array   |-> arr]

\* prevAlerts.map(a => a.id === alertId ? {...a, acknowledged: true} : a):
\* the heap with the new objects, and the elements of the new array.
mapAcknowledged(objs, arr, alertId) ==
  LET hit(i) == matches(objs[arr[i]], alertId)
      hitsUpTo(i) == Cardinality({ j \in 1..i : hit(j) })
      nth(k) == CHOOSE i \in 1..Len(arr) : hit(i) /\ hitsUpTo(i) = k
  IN  [objects |-> objs \o [k \in 1..hitsUpTo(Len(arr)) |->
                              acknowledged(objs[arr[nth(k)]])],
       array   |-> [i \in 1..Len(arr) |->
                      IF hit(i) THEN Len(objs) + hitsUpTo(i) ELSE arr[i]]]

\* The handler of the page: the state alerts becomes the mapped array; the
\* statistic is counted from the alerts of the render the handler closes over.
handleAcknowledgeAlert(alertId) ==
  LET m == mapAcknowledged(objects, arrays[alerts], alertId)
  IN  /\ objects' = m.objects
      /\ arrays' = Append(arrays, m.array)
      /\ alerts' = Len(arrays) + 1
      /\ criticalAlerts' =
           criticalAlertsCountWithout(Deref(objects, arrays[alerts]), alertId)

\* const isAcknowledged = acknowledgedAlerts.has(alert.id) || alert.acknowledged
isAcknowledged(a) == a.id \in acknowledgedAlerts \/ a.acknowledged

\* The handler of the timeline: it notes the id and calls the page's handler.
handleAcknowledge(alertId) ==
  /\ acknowledgedAlerts' = acknowledgedAlerts \cup { alertId }
  /\ handleAcknowledgeAlert(alertId)
  /\ UNCHANGED << simulatedErrorCount, simulatedAlerts >>
  /\ UNCHANGED dashboardVars
  /\ UNCHANGED OutsideDashboard

\* SIMULATED_ERROR_THRESHOLD
SIMULATED_ERROR_THRESHOLD == 5

reachedThreshold_first(newCount) == newCount >= 1

\* newCount >= SIMULATED_ERROR_THRESHOLD
reachedThreshold(newCount) == newCount >= SIMULATED_ERROR_THRESHOLD

\* ------------------------------------------------ the page, used by a user
InitDashboard ==
  /\ OutsideDashboardIdle
  /\ NoAlerts
  /\ page = "mounted"
  /\ allLogs = <<>>
  /\ searchTerm = <<>>
  /\ activeLevels = InitialLevels
  /\ filteredLogs = <<>>
  /\ dateNow = 0
  /\ totalErrors = 0

\* The effect run once after the page is mounted, with what it draws at
\* random: it generates the logs and the alerts, computes the statistics (the
\* critical alerts from the state alerts of the first render) and, if it
\* simulates an error, counts it and warns once the threshold is reached.
loadData(nowMs, mockLogs, mockAlerts, shouldSimulateError) ==
  /\ page = "mounted"
  /\ dateNow' = nowMs
  /\ allLogs' = mockLogs
  /\ objects' = objects \o mockAlerts
  /\ arrays' = Append(arrays, [i \in 1..Len(mockAlerts) |-> Len(objects) + i])
  /\ alerts' = Len(arrays) + 1
  /\ totalErrors' = errors24h(mockLogs, nowMs)
  /\ criticalAlerts' = criticalAlertsCount(Deref(objects, arrays[alerts]))
  /\ filteredLogs' = render(mockLogs, searchTerm, activeLevels)
  /\ LET newCount == simulatedErrorCount + 1
     IN  IF shouldSimulateError
         THEN /\ simulatedErrorCount' = newCount
              /\ simulatedAlerts' = IF reachedThreshold(newCount)
                                    THEN simulatedAlerts + 1
                                    ELSE simulatedAlerts
         ELSE UNCHANGED << simulatedErrorCount, simulatedAlerts >>
  /\ page' = "loaded"
  /\ UNCHANGED << searchTerm, activeLevels, acknowledgedAlerts >>
  /\ UNCHANGED OutsideDashboard

\* The search box changes, or its clear button sets the empty string.
onSearchTermChange(term) ==
  /\ page = "loaded"
  /\ searchTerm' = term
  /\ filteredLogs' = render(allLogs, term, activeLevels)
  /\ UNCHANGED << page, allLogs, activeLevels, dateNow, totalErrors >>
  /\ UNCHANGED alertVars
  /\ UNCHANGED OutsideDashboard

newLevels_appended(levels, lvl) == Append(levels, lvl)

\* activeLevels.includes(level) ? activeLevels.filter(l => l !== level)
\*                              : [...activeLevels, level]
newLevels(levels, lvl) ==
  IF levelIncluded(levels, lvl)
  THEN SelectSeq(levels, LAMBDA l : l # lvl)
  ELSE Append(levels, lvl)

\* The checkbox of one level is clicked.
handleLevelToggle(lvl) ==
  /\ page = "loaded"
  /\ LET toggled == newLevels(activeLevels, lvl)
     IN  /\ activeLevels' = toggled
         /\ filteredLogs' = render(allLogs, searchTerm, toggled)
  /\ UNCHANGED << page, allLogs, searchTerm, dateNow, totalErrors >>
  /\ UNCHANGED alertVars
  /\ UNCHANGED OutsideDashboard

isAllSelected == Len(ALL_LEVELS) = Len(activeLevels)

\* The button Select All / Deselect All is clicked.
toggleSelectAll ==
  /\ page = "loaded"
  /\ LET selected == IF isAllSelected THEN <<>> ELSE ALL_LEVELS
     IN  /\ activeLevels' = selected
         /\ filteredLogs' = render(allLogs, searchTerm, selected)
  /\ UNCHANGED << page, allLogs, searchTerm, dateNow, totalErrors >>
  /\ UNCHANGED alertVars
  /\ UNCHANGED OutsideDashboard

\* View Logs of an alert is clicked: its query becomes the search term.
handleViewRelatedLogs(query) ==
  /\ page = "loaded"
  /\ query # <<>>
  /\ \E i \in 1..Len(arrays[alerts]) :
       objects[arrays[alerts][i]].relatedLogsQuery = query
  /\ searchTerm' = query
  /\ filteredLogs' = render(allLogs, query, activeLevels)
  /\ UNCHANGED << page, allLogs, activeLevels, dateNow, totalErrors >>
  /\ UNCHANGED alertVars
  /\ UNCHANGED OutsideDashboard

\* The alerts the page shows while its log filter is used: one critical and
\* one warning alert, so that both related-logs queries are on offer.
DashboardAlerts(nowMs) ==
  << mockAlert(1, nowMs, "critical", FALSE), mockAlert(2, nowMs, "warning", FALSE) >>

\* The page with its log filter in use; the alerts stay as loaded.
NextDashboard ==
  \/ \E nowMs \in LoadTimes :
       \E mockLogs \in generateMockLogs(nowMs) :
         loadData(nowMs, mockLogs, DashboardAlerts(nowMs), FALSE)
  \/ \E term \in SearchTerms : onSearchTermChange(term)
  \/ \E lvl \in { ALL_LEVELS[i] : i \in 1..Len(ALL_LEVELS) } : handleLevelToggle(lvl)
  \/ toggleSelectAll
  \/ \E query \in RelatedLogsQueries : handleViewRelatedLogs(query)

SpecDashboard == InitDashboard /\ [][NextDashboard]_vars

\* ------------------------------------------- the page, its alerts in use
\* Acknowledge is clicked on an alert: the button is there only while the
\* alert is not shown as acknowledged.
clickAcknowledge(alertId) ==
  /\ page = "loaded"
  /\ \E i \in 1..Len(arrays[alerts]) :
       /\ objects[arrays[alerts][i]].id = alertId
       /\ ~isAcknowledged(objects[arrays[alerts][i]])
  /\ handleAcknowledge(alertId)

AlertIds == { "alert-" \o ToString(i) : i \in 1..MaxAlerts }

\* The page with its alerts in use; the log filter changes only through
\* View Logs.
NextAlerts ==
  \/ \E nowMs \in LoadTimes :
       \E mockLogs \in generateMockLogs(nowMs) :
         \E mockAlerts \in generateMockAlerts(nowMs) :
           \E shouldSimulateError \in BOOLEAN :
             loadData(nowMs, mockLogs, mockAlerts, shouldSimulateError)
  \/ \E alertId \in AlertIds : clickAcknowledge(alertId)
  \/ \E query \in RelatedLogsQueries : handleViewRelatedLogs(query)

SpecAlerts == InitDashboard /\ [][NextAlerts]_vars

\* --------------------------------------------- calls of the acknowledge handler
\* The largest number of calls of the handler that are followed.
MaxCalls == 2

\* An id no alert has.
MissingId == "missing-id"

\* The page holds any generated collection of alerts.
InitAcknowledge ==
  /\ OutsideDashboardIdle
  /\ page = "props"
  /\ allLogs = <<>>
  /\ searchTerm = <<>>
  /\ activeLevels = InitialLevels
  /\ filteredLogs = <<>>
  /\ dateNow \in LoadTimes
  /\ totalErrors = 0
  /\ \E list \in generateMockAlerts(dateNow) :
       /\ objects = list
       /\ arrays = << [i \in 1..Len(list) |-> i] >>
       /\ criticalAlerts = criticalAlertsCount(list)
  /\ alerts = 1
  /\ acknowledgedAlerts = {}
  /\ simulatedErrorCount = 0
  /\ simulatedAlerts = 0

\* The handler is called with the id of any alert or with an id of none.
NextAcknowledge ==
  \E alertId \in AlertIds \cup { MissingId } :
    Len(arrays) <= MaxCalls /\ handleAcknowledge(alertId)

SpecAcknowledge == InitAcknowledge /\ [][NextAcknowledge]_vars

\* --------------------------------------------------- one render of the page
\* The level, message and source a LogEntry may carry; source is optional.
LogShapes ==
  [level   : { "error", "info" },
   message : { <<"D", "b", "x">>, <<"x">> },
   source  : { NoSource, << <<"y", "D", "B">> >>, << <<"y">> >> }]

\* The collections of at most MaxLogs entries, newest first.
LogCollections ==
  UNION { { [i \in 1..n |->
              [id |-> i, timestamp |-> (MaxLogs + 1 - i) * HourMs,
               level |-> shape[i].level, message |-> shape[i].message,
               source |-> shape[i].source]]
            : shape \in [1..n -> LogShapes] }
          : n \in 0..MaxLogs }

\* The values of the state activeLevels a render is given.
LevelLists == { <<>>, <<"error">>, <<"info", "error">>, InitialLevels }

InitFilter ==
  /\ OutsideDashboardIdle
  /\ NoAlerts
  /\ page = "props"
  /\ allLogs \in LogCollections
  /\ searchTerm \in SearchTerms
  /\ activeLevels \in LevelLists
  /\ filteredLogs = <<>>
  /\ dateNow = 0
  /\ totalErrors = 0

\* The page renders once with the state it is given.
renderLogs ==
  /\ page = "props"
  /\ page' = "rendered"
  /\ filteredLogs' = render(allLogs, searchTerm, activeLevels)
  /\ UNCHANGED << allLogs, searchTerm, activeLevels, dateNow, totalErrors >>
  /\ UNCHANGED alertVars
  /\ UNCHANGED OutsideDashboard

NextFilter == renderLogs

SpecFilter == InitFilter /\ [][NextFilter]_vars

\* ------------------------------------------------ one count of recent errors
\* The largest number of log entries one count is taken over.
MaxRecords == 3

\* Timestamps relative to the Date.now() of the count.  Date.now() reads the
\* wall clock, which may have been set back since the entries were stamped,
\* so an entry may be later than the count.
Offsets == { 1, 0, 0 - HourMs, 1 - 24 * HourMs, 0 - 24 * HourMs, 0 - 30 * HourMs }

\* The collections of at most MaxRecords entries at nowMs, newest first.
CountCollections(nowMs) ==
  { logs \in UNION { [1..n -> [level : { "error", "warn" },
                               timestamp : { nowMs + o : o \in Offsets }]]
                     : n \in 0..MaxRecords } :
      \A i \in 1..Len(logs), j \in 1..Len(logs) :
        i < j => logs[i].timestamp >= logs[j].timestamp }

InitCount ==
  /\ OutsideDashboardIdle
  /\ NoAlerts
  /\ page = "props"
  /\ dateNow \in LoadTimes
  /\ allLogs \in CountCollections(dateNow)
  /\ searchTerm = <<>>
  /\ activeLevels = InitialLevels
  /\ filteredLogs = <<>>
  /\ totalErrors = 0

\* The statistic total-errors is computed from the collection.
countErrors24h ==
  /\ page = "props"
  /\ page' = "counted"
  /\ totalErrors' = errors24h(allLogs, dateNow)
  /\ UNCHANGED << allLogs, searchTerm, activeLevels, filteredLogs, dateNow >>
  /\ UNCHANGED alertVars
  /\ UNCHANGED OutsideDashboard

NextCount == countErrors24h

SpecCount == InitCount /\ [][NextCount]_vars

\* ------------------------------------------------------ the recipients page
\* The largest number of recipients the list holds.
MaxRecipients == 3

\* The properties of the object logger that are functions.
LoggerMethods == { "text" }

\* Calling logger[method](...) throws a TypeError when logger has no such
\* function.
callThrows(method) == method \notin LoggerMethods

\* initialMockRecipients; of a recipient the id and the name are kept.
initialMockRecipients ==
  << [id |-> "1", name |-> "Alice"], [id |-> "2", name |-> "Bob"],
     [id |-> "3", name |-> "Charlie"] >>

\* The names a user types that pass the form's validation.
ValidNames == { "Dana", "Eve" }

\* The values crypto.randomUUID() returns.
UUIDs == { "uuid-1", "uuid-2", "uuid-3" }

\* The lists a table is rendered with: initial recipients, in their order.
RecipientLists ==
  { SelectSeq(initialMockRecipients, LAMBDA r : r.id \in keep)
      : keep \in SUBSET { "1", "2", "3" } }

RecipientIds == { recipients[i].id : i \in 1..Len(recipients) }

\* handleAddRecipient: [...prevRecipients, newRecipient]
handleAddRecipient(prevRecipients, newRecipient) ==
  Append(prevRecipients, newRecipient)

\* handleUpdateRecipient: the recipient with the same id is replaced.
handleUpdateRecipient(prevRecipients, updatedRecipient) ==
  [i \in 1..Len(prevRecipients) |->
     IF prevRecipients[i].id = updatedRecipient.id THEN updatedRecipient
     ELSE prevRecipients[i]]

\* handleDeleteRecipient: prevRecipients.filter(r => r.id !== recipientId)
handleDeleteRecipient(prevRecipients, recipientId) ==
  SelectSeq(prevRecipients, LAMBDA r : r.id # recipientId)

\* The default value of the form field name: the recipient's name, or the
\* empty string in the dialog that adds.
defaultName(owner) ==
  IF owner \in RecipientIds
  THEN recipients[CHOOSE i \in 1..Len(recipients) : recipients[i].id = owner].name
  ELSE ""

\* The page is mounted with an empty list, or a table is rendered with a
\* list; no dialog is open.
InitRecipients ==
  /\ OutsideRecipientsIdle
  /\ \/ rpage = "mounted" /\ recipients = <<>>
     \/ rpage = "rendered" /\ recipients \in RecipientLists
  /\ dialog = NoDialog
  /\ lastToast = ""
  /\ thrown = "none"

\* The effect of the page: it sets the list and then calls logger.info, which
\* is not a function; the TypeError leaves the effect and takes the page down.
loadRecipients ==
  /\ rpage = "mounted"
  /\ recipients' = initialMockRecipients
  /\ IF callThrows("info")
     THEN thrown' = "TypeError" /\ rpage' = "failed"
     ELSE thrown' = "none" /\ rpage' = "rendered"
  /\ UNCHANGED << dialog, lastToast >>
  /\ UNCHANGED OutsideRecipients

\* The dialog that adds ("add") or the dialog of a row (its recipient's id)
\* is opened.
handleOpenChange_open(owner) ==
  /\ rpage = "rendered"
  /\ ~dialog.isOpen
  /\ owner = "add" \/ owner \in RecipientIds
  /\ dialog' = [owner |-> owner, isOpen |-> TRUE, name |-> defaultName(owner)]
  /\ thrown' = "none"
  /\ UNCHANGED << rpage, recipients, lastToast >>
  /\ UNCHANGED OutsideRecipients

\* The open dialog is closed by the user: the form is reset.
handleOpenChange_close ==
  /\ rpage = "rendered"
  /\ dialog.isOpen
  /\ dialog' = [dialog EXCEPT !.isOpen = FALSE, !.name = defaultName(dialog.owner)]
  /\ thrown' = "none"
  /\ UNCHANGED << rpage, recipients, lastToast >>
  /\ UNCHANGED OutsideRecipients

\* A valid name is typed into the open form.
typeName(name) ==
  /\ rpage = "rendered"
  /\ dialog.isOpen
  /\ dialog' = [dialog EXCEPT !.name = name]
  /\ thrown' = "none"
  /\ UNCHANGED << rpage, recipients, lastToast >>
  /\ UNCHANGED OutsideRecipients

\* The valid form is submitted: onSave, the toast, the logging call, and, if
\* that call returns, setIsOpen(false) and form.reset().
onSubmit(uuid) ==
  /\ rpage = "rendered"
  /\ dialog.isOpen
  /\ dialog.name \in ValidNames \cup { initialMockRecipients[i].name : i \in 1..3 }
  /\ dialog.owner = "add" => (Len(recipients) < MaxRecipients /\ uuid \notin RecipientIds)
  /\ LET editing == dialog.owner # "add"
         newRecipientData ==
           [id |-> IF editing THEN dialog.owner ELSE uuid, name |-> dialog.name]
     IN  /\ recipients' = IF editing
                          THEN handleUpdateRecipient(recipients, newRecipientData)
                          ELSE handleAddRecipient(recipients, newRecipientData)
         /\ lastToast' = IF editing THEN "Recipient Updated" ELSE "Recipient Added"
  /\ IF callThrows("info")
     THEN thrown' = "TypeError" /\ UNCHANGED dialog
     ELSE /\ thrown' = "none"
          /\ dialog' = [dialog EXCEPT !.isOpen = FALSE, !.name = defaultName(dialog.owner)]
  /\ UNCHANGED rpage
  /\ UNCHANGED OutsideRecipients

\* Delete is confirmed for a row: onDeleteRecipient, the toast, the logging
\* call.
handleDelete(recipientId) ==
  /\ rpage = "rendered"
  /\ ~dialog.isOpen
  /\ recipientId \in RecipientIds
  /\ recipients' = handleDeleteRecipient(recipients, recipientId)
  /\ lastToast' = "Recipient Deleted"
  /\ thrown' = IF callThrows("warn") THEN "TypeError" ELSE "none"
  /\ UNCHANGED << rpage, dialog >>
  /\ UNCHANGED OutsideRecipients

NextRecipients ==
  \/ loadRecipients
  \/ \E owner \in { "add", "1", "2", "3" } \cup UUIDs : handleOpenChange_open(owner)
  \/ handleOpenChange_close
  \/ \E name \in ValidNames : typeName(name)
  \/ \E uuid \in UUIDs : onSubmit(uuid)
  \/ \E recipientId \in { "1", "2", "3" } \cup UUIDs : handleDelete(recipientId)

SpecRecipients == InitRecipients /\ [][NextRecipients]_vars

\* ---------------------------------------------------- the Svelte components
\* The largest number of timer ticks that are followed.
MaxTicks == 12

\* Array.prototype.slice(start, end), for 0 <= start <= end.
slice(arr, start, end) ==
  SubSeq(arr, start + 1, IF end < Len(arr) THEN end ELSE Len(arr))

\* How late a timer may fire, in milliseconds.
TimerDelays == { 0, 1 }

\* The period of the timer of LogStream, and of the timer of
\* IncidentTimeline, in milliseconds.
LogInterval == 2000

IncidentInterval == 5000

\* The entry LogStream makes at a time: its text is the time, formatted.
logEntry(at) == [time |-> at, text |-> "ERROR: Simulated log entry"]

logsUpdate_keepTen(l, entry) == << entry >> \o slice(l, 0, 10)

\* logs.update(l => [entry, ...l.slice(0, 9)])
logsUpdate(l, entry) == << entry >> \o slice(l, 0, 9)

incidentsUpdate_keepFive(i, incident) == << incident >> \o slice(i, 0, 5)

\* incidents.update(i => [incident, ...i.slice(0, 4)])
incidentsUpdate(i, incident) == << incident >> \o slice(i, 0, 4)

\* The component is created: its store is empty, id is 1.
InitStream ==
  /\ OutsideStreamsIdle
  /\ component = "created"
  /\ streamLogs = <<>>
  /\ incidents = <<>>
  /\ id = 1
  /\ clock = 0

\* onMount: the timer is started.
onMount ==
  /\ component = "created"
  /\ component' = "mounted"
  /\ UNCHANGED << streamLogs, incidents, id, clock >>
  /\ UNCHANGED OutsideStreams

\* The function onMount returned is called: the timer is cleared.
onDestroy ==
  /\ component = "mounted"
  /\ component' = "destroyed"
  /\ UNCHANGED << streamLogs, incidents, id, clock >>
  /\ UNCHANGED OutsideStreams

\* The timer of LogStream fires, one period after the last time or later.
logTick(delay) ==
  /\ component = "mounted"
  /\ clock < MaxTicks * LogInterval
  /\ clock' = clock + LogInterval + delay
  /\ streamLogs' = logsUpdate(streamLogs, logEntry(clock'))
  /\ UNCHANGED << component, incidents, id >>
  /\ UNCHANGED OutsideStreams

\* The timer of IncidentTimeline fires.
incidentTick(delay) ==
  /\ component = "mounted"
  /\ clock < MaxTicks * IncidentInterval
  /\ clock' = clock + IncidentInterval + delay
  /\ incidents' = incidentsUpdate(incidents,
                    [id |-> id, message |-> "High latency in service-x",
                     time |-> clock'])
  /\ id' = id + 1
  /\ UNCHANGED << component, streamLogs >>
  /\ UNCHANGED OutsideStreams

NextLogStream ==
  \/ onMount
  \/ \E delay \in TimerDelays : logTick(delay)
  \/ onDestroy

SpecLogStream == InitStream /\ [][NextLogStream]_vars

NextIncidents ==
  \/ onMount
  \/ \E delay \in TimerDelays : incidentTick(delay)
  \/ onDestroy

SpecIncidents == InitStream /\ [][NextIncidents]_vars

\* ------------------------------------------------------------------ claims
\* The call has run: it returned or an exception left it.
Called == outcome # "idle"

\* The active span carries a trace identifier that is neither empty nor the
\* all-zero sentinel.
ValidTrace ==
  /\ currentSpan.active
  /\ currentSpan.traceId # ""
  /\ currentSpan.traceId # "00000000000000000000000000000000"

\* A data key whose attribute the injected attributes replace.
Injected(k) == k = "log.level" \/ (k \in {"trace_id", "span_id"} /\ ValidTrace)

\* The data entries, as a set.
Entries == { dataArg[i] : i \in 1..Len(dataArg) }

\* C1 (as claimed): whenever the sink itself does not fail, a call with a
\* level of the enumeration returns normally, whatever data holds.
C1_NeverThrows ==
  (Called /\ level \in Levels /\ ~sinkThrows) => outcome = "returned"

\* C2 (as claimed): when the sink's emit throws, the console mirror is still
\* written and the call returns normally.
C2_SinkFailureContained ==
  (Called /\ sinkThrows) => (Len(console) >= 1 /\ outcome = "returned")

\* C3: the severity of the sink record is ERROR for error, WARN for warn,
\* INFO for info and delivered, DEBUG for debug and blocked, and INFO for
\* any other level; it is never left undefined.
C3_SeverityMapping ==
  Called =>
    /\ Len(emitted) = 1
    /\ emitted[1].severityNumber \in {"ERROR", "WARN", "INFO", "DEBUG"}
    /\ level = "error" => emitted[1].severityNumber = "ERROR"
    /\ level = "warn" => emitted[1].severityNumber = "WARN"
    /\ level \in {"info", "delivered"} => emitted[1].severityNumber = "INFO"
    /\ level \in {"debug", "blocked"} => emitted[1].severityNumber = "DEBUG"
    /\ level \notin Levels => emitted[1].severityNumber = "INFO"

\* C3 witness: a blocked-level call has handed over a DEBUG record.
C3_Witness ==
  /\ outcome = "returned"
  /\ level = "blocked"
  /\ Len(emitted) = 1
  /\ emitted[1].severityNumber = "DEBUG"

\* C4 (as claimed): a call that returns has written to the console exactly
\* once, on the channel of its level family.
C4_OneConsoleWrite ==
  (outcome = "returned" /\ level \in Levels) =>
    /\ Len(console) = 1
    /\ level = "error" => console[1].channel = "error"
    /\ level = "warn" => console[1].channel = "warn"
    /\ level \in {"info", "delivered"} => console[1].channel = "info"
    /\ level \in {"debug", "blocked"} => console[1].channel = "debug"

\* C5: each call hands exactly one record to the sink; its body is the
\* message argument alone, its severity the mapped severity, its attributes
\* the shaped attributes (one per data key, plus log.level, plus the trace
\* identifiers of a valid trace), and its timestamp the creation time that
\* the console string carries.
C5_OneRecord ==
  Called =>
    /\ Len(emitted) = 1
    /\ emitted[1].body = message
    /\ emitted[1].severityNumber = severityNumber(level)
    /\ emitted[1].attributes = logAttributes(level, dataArg, currentSpan)
    /\ DOMAIN emitted[1].attributes =
         { e.key : e \in Entries } \cup {"log.level"}
         \cup (IF ValidTrace THEN {"trace_id", "span_id"} ELSE {})
    /\ emitted[1].timestamp = now
    /\ console # <<>> =>
         console[1].args[1] =
           finalConsoleMessage(emitted[1].timestamp, level, message, dataArg)

\* C5 witness: a call with data has handed over one record whose body is
\* the bare message and has mirrored it on the console.
C5_Witness ==
  /\ outcome = "returned"
  /\ dataArg # <<>>
  /\ Len(emitted) = 1
  /\ emitted[1].body = "Payment failed"
  /\ Len(console) >= 1

\* C6 (as claimed): log.level is the level argument, and every data key
\* other than log.level whose value is a primitive carries that value
\* coerced to a string.
C6_PrimitiveKeysKept ==
  Called =>
    /\ Len(emitted) = 1
    /\ emitted[1].attributes["log.level"] = level
    /\ \A e \in Entries :
         (~IsObject(e.value) /\ e.key # "log.level") =>
           emitted[1].attributes[e.key] = String(e.value)

\* C6 (amended): log.level is the level argument even when data holds a key
\* of that name, and every data key whose value is a primitive carries that
\* value coerced to a string, except the keys the injected attributes
\* replace: log.level always, trace_id and span_id under a valid trace.
C6_Attributes ==
  Called =>
    /\ Len(emitted) = 1
    /\ emitted[1].attributes["log.level"] = level
    /\ \A e \in Entries :
         (~IsObject(e.value) /\ ~Injected(e.key)) =>
           emitted[1].attributes[e.key] = String(e.value)

\* C6 witness: data {count: 3, log.level: ...} was logged and the record
\* carries count = "3" and the level argument.
C6_Witness ==
  /\ outcome = "returned"
  /\ Entry("count", Num(3)) \in Entries
  /\ \E e \in Entries : e.key = "log.level"
  /\ emitted[1].attributes["count"] = "3"
  /\ emitted[1].attributes["log.level"] = level

\* C7 (as claimed): the record carries trace_id and span_id exactly under a
\* valid trace, and then they are the span's identifiers.
C7_TraceOnlyFromSpan ==
  Called =>
    /\ Len(emitted) = 1
    /\ ValidTrace =>
         /\ emitted[1].attributes["trace_id"] = currentSpan.traceId
         /\ emitted[1].attributes["span_id"] = currentSpan.spanId
    /\ ~ValidTrace =>
         /\ "trace_id" \notin DOMAIN emitted[1].attributes
         /\ "span_id" \notin DOMAIN emitted[1].attributes

\* C7 (amended): under a valid trace the record's trace_id and span_id are
\* the span's identifiers, whatever keys data holds; without one the record
\* carries a trace_id or span_id only when data itself has a key of that
\* name, and then with the value shaped from data.
C7_TraceAttributes ==
  Called =>
    /\ Len(emitted) = 1
    /\ ValidTrace =>
         /\ emitted[1].attributes["trace_id"] = currentSpan.traceId
         /\ emitted[1].attributes["span_id"] = currentSpan.spanId
    /\ ~ValidTrace =>
         \A k \in {"trace_id", "span_id"} :
           /\ k \in DOMAIN emitted[1].attributes <=> \E e \in Entries : e.key = k
           /\ \A e \in Entries :
                e.key = k => emitted[1].attributes[k] = shapeValue(e.value)

\* C7 witness: a call under a valid trace whose data holds its own trace_id
\* has handed over a record with the span's identifiers.
C7_Witness ==
  /\ outcome = "returned"
  /\ ValidTrace
  /\ \E e \in Entries : e.key = "trace_id"
  /\ emitted[1].attributes["trace_id"] = "abc123"
  /\ emitted[1].attributes["span_id"] = "def456"

\* C8 (as claimed): for a data value that is an Error with a message and a
\* stack, the attributes hold error.message and error.stack, and a string
\* under the original key.
C8_ErrorAttributes ==
  Called =>
    \A e \in Entries :
      (IsError(e.value) /\ e.value.stack # "") =>
        /\ Len(emitted) = 1
        /\ e.key \in DOMAIN emitted[1].attributes
        /\ "error.message" \in DOMAIN emitted[1].attributes
        /\ "error.stack" \in DOMAIN emitted[1].attributes
        /\ emitted[1].attributes["error.message"] = e.value.message
        /\ emitted[1].attributes["error.stack"] = e.value.stack

\* A call that only a failing sink or a value without a string form can
\* keep from returning.
NoOtherFailure ==
  ~sinkThrows /\ \A e \in Entries : ~StringThrows(e.value)

SpanOps(kind) == SelectSeq(spanCalls, LAMBDA c : c.op = kind)

\* C10 (as claimed): an error-level call under an active span that returns
\* has set the span status to failed with the message and recorded exactly
\* one exception: an Error that data holds under some key when there is one,
\* otherwise an Error whose message is the message argument.
C10_ErrorSpan ==
  (outcome = "returned" /\ level = "error" /\ currentSpan.active) =>
    /\ SpanOps("setStatus")
         = << [op |-> "setStatus", code |-> "ERROR", message |-> message] >>
    /\ Len(SpanOps("recordException")) = 1
    /\ LET recorded == SpanOps("recordException")[1].exception
           supplied == { e.value : e \in { x \in Entries : IsError(x.value) } }
       IN  IF supplied # {} THEN recorded \in supplied
           ELSE recorded.message = message

\* C11 (as claimed): an error-level call under an active span that returns
\* has recorded, with the exception, one attribute log.data.<key> for every
\* data entry whose value is not an Error, holding the value's string form,
\* and nothing else; a string under the key error is among them.
C11_ExceptionAttributes ==
  (outcome = "returned" /\ level = "error" /\ currentSpan.active) =>
    /\ Len(SpanOps("recordException")) = 1
    /\ LET attrs == SpanOps("recordException")[1].attributes
           kept == { e \in Entries : ~IsError(e.value) }
       IN  /\ DOMAIN attrs = { "log.data." \o e.key : e \in kept }
           /\ \A e \in kept : attrs["log.data." \o e.key] = String(e.value)

\* C12 (as claimed): a call of any level other than error under an active
\* span that returns has added exactly one event and done nothing else to
\* the span; the event's name is made of the level, in lower or upper case,
\* and the message, and its attributes are those of the sink record.
C12_OneEvent ==
  (outcome = "returned" /\ level # "error" /\ currentSpan.active) =>
    /\ Len(spanCalls) = 1
    /\ spanCalls[1].op = "addEvent"
    /\ spanCalls[1].name \in { level \o ": " \o message,
                               toUpperCase(level) \o ": " \o message }
    /\ spanCalls[1].attributes = emitted[1].attributes

\* An attribute mapping without the trace identifiers.
WithoutTrace(attrs) ==
  [n \in DOMAIN attrs \ {"trace_id", "span_id"} |-> attrs[n]]

\* C13: a call without an active span invokes no operation on a span,
\* whatever its level; its sink record is the one the same call hands over
\* under any active span, apart from the attributes trace_id and span_id,
\* and its console mirror is the same write.
C13_NoSpanNoOperation ==
  (Called /\ ~currentSpan.active) =>
    /\ spanCalls = <<>>
    /\ Len(emitted) = 1
    /\ \A s \in { x \in Spans : x.active } :
         LET record == otelLogRecord(level, message, dataArg, s, now)
             writes == consoleWrites(now, level, message, dataArg,
                                     thrownAt(level, dataArg, s, sinkThrows),
                                     hasWindow, DATADOG_API_KEY_SET)
         IN  /\ emitted[1].body = record.body
             /\ emitted[1].severityNumber = record.severityNumber
             /\ emitted[1].timestamp = record.timestamp
             /\ WithoutTrace(emitted[1].attributes)
                  = WithoutTrace(record.attributes)
             /\ (console = <<>>) <=> (writes = <<>>)
             /\ console # <<>> => console[1] = writes[1]

\* C13 witness: an error with data was logged while no span was active; the
\* sink and the console were written, no span operation was invoked.
C13_Witness ==
  /\ outcome = "returned"
  /\ ~currentSpan.active
  /\ level = "error"
  /\ dataArg # <<>>
  /\ Len(emitted) = 1
  /\ Len(console) >= 1
  /\ spanCalls = <<>>

\* C14 (as claimed): a call with a level outside the enumeration returns
\* normally, with an INFO record whose log.level is the literal level.
C14_UnknownLevel ==
  (Called /\ level \notin Levels) =>
    /\ outcome = "returned"
    /\ Len(emitted) = 1
    /\ emitted[1].severityNumber = "INFO"
    /\ emitted[1].attributes["log.level"] = level

\* The records of a list of log entries, as a set.
Records(logs) == { logs[i] : i \in 1..Len(logs) }

\* str contains term, ignoring the case of both.
ContainsIgnoringCase(str, term) ==
  \E i \in 0..(Len(str) - Len(term)) :
    \A j \in 1..Len(term) : lowerChar(str[i + j]) = lowerChar(term[j])

\* C15: a render keeps a record exactly when the allowed levels contain its
\* level and the search term is empty, or its message contains the term
\* ignoring case, or it has a source and the source contains the term
\* ignoring case.
C15_FilterPredicate ==
  page = "rendered" =>
    \A log \in Records(allLogs) :
      log \in Records(filteredLogs) <=>
        /\ log.level \in Records(activeLevels)
        /\ \/ searchTerm = <<>>
           \/ ContainsIgnoringCase(log.message, searchTerm)
           \/ (HasSource(log) /\ ContainsIgnoringCase(log.source[1], searchTerm))

\* A record whose message matches only when case is ignored is kept, and a
\* record without a source whose message does not match is dropped.
C15_Witness ==
  /\ page = "rendered"
  /\ searchTerm = <<"D", "B">>
  /\ Len(allLogs) = 2
  /\ allLogs[1].message = <<"D", "b", "x">> /\ ~HasSource(allLogs[1])
  /\ allLogs[2].message = <<"x">> /\ ~HasSource(allLogs[2])
  /\ allLogs[1].level = "error" /\ allLogs[2].level = "error"
  /\ activeLevels = <<"error">>
  /\ filteredLogs = << allLogs[1] >>

\* sub is obtained from seq by leaving entries out: its entries are entries
\* of seq at strictly increasing positions.
IsSubsequence(sub, seq) ==
  \E at \in [1..Len(sub) -> 1..Len(seq)] :
    /\ \A i \in 1..Len(sub) : sub[i] = seq[at[i]]
    /\ \A i \in 1..Len(sub), j \in 1..Len(sub) : i < j => at[i] < at[j]

\* C16: the filtered list holds only records of the collection, each at most
\* once, in the order they have in the collection.
C16_Subsequence == page = "rendered" => IsSubsequence(filteredLogs, allLogs)

\* Two records of different levels both pass a search by their text, and the
\* level list names their levels in the opposite order.
C16_Witness ==
  /\ page = "rendered"
  /\ searchTerm = <<"d", "b">>
  /\ activeLevels = <<"info", "error">>
  /\ Len(allLogs) = 2
  /\ allLogs[1].level = "error" /\ allLogs[2].level = "info"
  /\ filteredLogs = allLogs

\* C17: while no level is allowed the page shows no log, whatever the logs
\* and the search term, and however the levels came to be deselected.
C17_NoLevelNoLog ==
  (page = "loaded" /\ activeLevels = <<>>) => filteredLogs = <<>>

\* Every level is deselected while logs are loaded that the search term
\* alone would let through.
C17_Witness ==
  /\ page = "loaded"
  /\ activeLevels = <<>>
  /\ Len(allLogs) = 2
  /\ searchTerm = <<>>
  /\ filteredLogs = <<>>

\* All six levels are allowed, in whatever order they were selected.
AllLevelsActive ==
  Records(activeLevels) = { "error", "warn", "info", "debug", "delivered", "blocked" }

\* C18: with an empty search term and all six levels allowed the page shows
\* the whole collection in its order, after any sequence of actions, and no
\* action changes the loaded collection.
C18_FullCollection ==
  /\ []((page = "loaded" /\ searchTerm = <<>> /\ AllLevelsActive)
          => filteredLogs = allLogs)
  /\ [][page = "loaded" => allLogs' = allLogs]_vars

\* The whole collection is shown again after a level was switched off and on:
\* the level list is in an order only toggling produces.
C18_Witness ==
  /\ page = "loaded"
  /\ searchTerm = <<>>
  /\ activeLevels = << "warn", "info", "delivered", "blocked", "debug", "error" >>
  /\ Len(allLogs) = 2
  /\ filteredLogs = allLogs

\* The number of entries of logs that satisfy Counted.
CountOf(logs, Counted(_)) == Cardinality({ i \in 1..Len(logs) : Counted(logs[i]) })

\* C19 (as claimed): when no entry is later than now, the count of recent
\* errors is the number of entries of level error whose timestamp is at or
\* after now minus 24 hours, the boundary now minus 24 hours included.
C19_RecentCount ==
  (page = "counted" /\ \A log \in Records(allLogs) : log.timestamp <= dateNow) =>
    totalErrors =
      CountOf(allLogs, LAMBDA log : /\ log.level = "error"
                                    /\ log.timestamp >= dateNow - 24 * HourMs)

\* C20 (as claimed): an entry whose timestamp is later than now is never
\* counted: the count is at most the number of entries of level error that
\* are not later than now.
C20_FutureNotCounted ==
  page = "counted" =>
    totalErrors <=
      CountOf(allLogs, LAMBDA log : /\ log.level = "error"
                                    /\ log.timestamp <= dateNow)

CurrentAlerts == Deref(objects, arrays[alerts])

CurrentAlertsAfter == Deref(objects', arrays'[alerts'])

\* Every array and every alert object that exists before a step has the same
\* value after it.
HeapKept ==
  /\ \A r \in 1..Len(objects) : r <= Len(objects') /\ objects'[r] = objects[r]
  /\ \A r \in 1..Len(arrays) : r <= Len(arrays') /\ arrays'[r] = arrays[r]

\* C21: acknowledging the id of an alert of the collection makes the state a
\* new array of the same length and order whose matching alert is
\* acknowledged and whose other alerts and fields are as before, and changes
\* no array and no alert object that existed before the call.
C21_AcknowledgeFrame ==
  [][\A alertId \in AlertIds :
       (handleAcknowledge(alertId)
          /\ \E i \in 1..Len(CurrentAlerts) : CurrentAlerts[i].id = alertId)
       => /\ alerts' # alerts
          /\ alerts' > Len(arrays)
          /\ Len(CurrentAlertsAfter) = Len(CurrentAlerts)
          /\ \A i \in 1..Len(CurrentAlerts) :
               CurrentAlertsAfter[i] =
                 IF CurrentAlerts[i].id = alertId
                 THEN [CurrentAlerts[i] EXCEPT !.acknowledged = TRUE]
                 ELSE CurrentAlerts[i]
          /\ HeapKept]_vars

\* One call acknowledged the first of two unacknowledged alerts: the new
\* array shows it acknowledged, the array and the object from before do not.
C21_Witness ==
  /\ page = "props"
  /\ Len(arrays) = 2 /\ alerts = 2
  /\ Len(arrays[1]) = 2
  /\ ~objects[arrays[1][1]].acknowledged /\ ~objects[arrays[1][2]].acknowledged
  /\ objects[arrays[2][1]].acknowledged /\ ~objects[arrays[2][2]].acknowledged
  /\ arrays[2][2] = arrays[1][2]

\* C22: acknowledging an id that no alert of the collection has leaves a
\* collection with the same alerts in the same order with the same flags.
C22_MissingIdNoOp ==
  [][handleAcknowledge(MissingId) => CurrentAlertsAfter = CurrentAlerts]_vars

\* The handler was called once with the missing id on a collection that holds
\* an unacknowledged alert.
C22_Witness ==
  /\ page = "props"
  /\ Len(arrays) = 2 /\ alerts = 2
  /\ acknowledgedAlerts = { MissingId }
  /\ Len(arrays[1]) = 2
  /\ ~objects[arrays[1][1]].acknowledged
  /\ Deref(objects, arrays[2]) = Deref(objects, arrays[1])

\* The alert of the collection with the given id is shown as acknowledged.
Shown(list, acked, alertId) ==
  \E i \in 1..Len(list) :
    list[i].id = alertId /\ (alertId \in acked \/ list[i].acknowledged)

\* C23: no step takes an acknowledgement back, neither in the collection nor
\* on display, and acknowledging an alert that the collection already holds
\* as acknowledged leaves the collection equal to what it was.
C23_AcknowledgedStays ==
  [][/\ \A i \in 1..Len(CurrentAlerts) :
          /\ i <= Len(CurrentAlertsAfter)
          /\ CurrentAlertsAfter[i].id = CurrentAlerts[i].id
          /\ CurrentAlerts[i].acknowledged => CurrentAlertsAfter[i].acknowledged
     /\ \A alertId \in AlertIds :
          Shown(CurrentAlerts, acknowledgedAlerts, alertId)
            => Shown(CurrentAlertsAfter, acknowledgedAlerts', alertId)
     /\ \A alertId \in AlertIds :
          (handleAcknowledge(alertId)
             /\ \E i \in 1..Len(CurrentAlerts) :
                  CurrentAlerts[i].id = alertId /\ CurrentAlerts[i].acknowledged)
          => CurrentAlertsAfter = CurrentAlerts]_vars

\* The same alert, unacknowledged at first, was acknowledged twice: the
\* second call left the collection as the first had made it.
C23_Witness ==
  /\ page = "props"
  /\ Len(arrays) = 3 /\ alerts = 3
  /\ acknowledgedAlerts = { "alert-1" }
  /\ Len(arrays[1]) >= 1
  /\ ~objects[arrays[1][1]].acknowledged
  /\ objects[arrays[2][1]].acknowledged
  /\ Deref(objects, arrays[3]) = Deref(objects, arrays[2])

\* C24 (as claimed): in every state after the load the statistic
\* critical-alerts is the number of alerts of the collection that are
\* critical and not acknowledged.
C24_CriticalAlertsShown ==
  page = "loaded" =>
    criticalAlerts =
      Cardinality({ i \in 1..Len(CurrentAlerts) :
                      /\ CurrentAlerts[i].severity = "critical"
                      /\ ~CurrentAlerts[i].acknowledged })

\* C30: within one mount the simulated-error counter is at most 1, hence
\* below the threshold of 5, and no SIMULATED ALERT warning is logged.
C30_BelowThreshold ==
  /\ simulatedErrorCount <= 1
  /\ simulatedErrorCount < 5
  /\ simulatedAlerts = 0

\* The load simulated an error and counted it, and the page was used after.
C30_Witness ==
  /\ page = "loaded"
  /\ simulatedErrorCount = 1
  /\ simulatedAlerts = 0
  /\ acknowledgedAlerts # {}

\* The levels of the list activeLevels, as a set.
ActiveSet == Records(activeLevels)

ActiveSetAfter == { activeLevels'[i] : i \in 1..Len(activeLevels') }

SixLevels == { "error", "warn", "info", "debug", "delivered", "blocked" }

\* C26: the list of active levels never repeats a level and holds only the
\* six known levels; the button reads Deselect All (the list is as long as
\* the list of all levels) exactly when all six are selected; a toggle flips
\* the membership of its level only; Select All selects all six and
\* Deselect All selects none.
C26_ActiveLevels ==
  /\ [](page \in { "mounted", "loaded" } =>
          /\ \A i, j \in 1..Len(activeLevels) :
                activeLevels[i] = activeLevels[j] => i = j
          /\ ActiveSet \subseteq SixLevels
          /\ (Len(activeLevels) = 6) <=> (ActiveSet = SixLevels))
  /\ [][\A lvl \in SixLevels :
          handleLevelToggle(lvl) =>
            ActiveSetAfter = IF lvl \in ActiveSet THEN ActiveSet \ { lvl }
                                                 ELSE ActiveSet \cup { lvl }]_vars
  /\ [][toggleSelectAll =>
          IF ActiveSet = SixLevels THEN activeLevels' = <<>>
                                   ELSE ActiveSetAfter = SixLevels]_vars

\* Three levels are selected in an order that only Deselect All followed by
\* three toggles produces.
C26_Witness ==
  /\ page = "loaded"
  /\ activeLevels = << "warn", "debug", "error" >>

\* How often the list holds a recipient with the given id and name.
Occurrences(list, recipientId, name) ==
  Cardinality({ i \in 1..Len(list) : list[i].id = recipientId /\ list[i].name = name })

\* C27 (as claimed): a submit of the valid form adds the recipient, or
\* replaces it by id when editing, exactly once, and then closes the dialog
\* and resets the form, and no exception leaves it; a confirmed delete removes
\* the recipient and no exception leaves it.
C27_SubmitCompletes ==
  [][/\ \A uuid \in UUIDs :
          onSubmit(uuid) =>
            /\ Len(recipients') = IF dialog.owner = "add" THEN Len(recipients) + 1
                                                         ELSE Len(recipients)
            /\ Occurrences(recipients',
                           IF dialog.owner = "add" THEN uuid ELSE dialog.owner,
                           dialog.name) = 1
            /\ ~dialog'.isOpen
            /\ dialog'.name \notin ValidNames
            /\ thrown' = "none"
     /\ \A recipientId \in { "1", "2", "3" } \cup UUIDs :
          handleDelete(recipientId) =>
            /\ \A i \in 1..Len(recipients') : recipients'[i].id # recipientId
            /\ thrown' = "none"]_vars

\* C28: the log stream never holds more than 10 entries, and a tick puts the
\* new entry first, keeps the entries held before behind it in their order,
\* and drops only the oldest when there would be more than 10.
C28_LogStreamBounded ==
  /\ [](Len(streamLogs) <= 10)
  /\ [][\A delay \in TimerDelays :
          logTick(delay) =>
            /\ Len(streamLogs') = IF Len(streamLogs) < 10 THEN Len(streamLogs) + 1
                                                         ELSE 10
            /\ streamLogs'[1].time = clock'
            /\ \A k \in 2..Len(streamLogs') : streamLogs'[k] = streamLogs[k - 1]]_vars

\* The list is full and its oldest entry is not the first that was made: an
\* entry has been dropped.
C28_Witness ==
  /\ Len(streamLogs) = 10
  /\ streamLogs[10].time >= 2 * 2000
  /\ streamLogs[1].time = clock

\* C29: the incident timeline never holds more than 5 incidents, the newest
\* is first, and the ids strictly decrease from first to last.
C29_IncidentsBounded ==
  /\ Len(incidents) <= 5
  /\ incidents # <<>> => incidents[1].id = id - 1
  /\ \A k \in 1..Len(incidents), n \in 1..Len(incidents) :
       k < n => incidents[k].id > incidents[n].id

\* Seven ticks have passed: the list holds the incidents 7 down to 3.
C29_Witness ==
  /\ Len(incidents) = 5
  /\ incidents[1].id = 7
  /\ incidents[5].id = 3

====
